---------------------------- MODULE Spec2Model ----------------------------
(***************************************************************************)
(* mqtt-webhook-bridge: HTTP endpoints built from a declarative route      *)
(* configuration (app/config.py), each translated by a generated handler   *)
(* (app/route_builder.py) into one MQTT publish (app/mqtt_client.py),      *)
(* behind an API-key gate (app/auth.py), started by app/main.py.           *)
(*                                                                         *)
(* Text (topics, payloads, request bodies) is a sequence of tokens: the    *)
(* structural characters { } : , " and the space are one token each, every *)
(* other token is a word that holds none of them.  No word of the model    *)
(* begins with True or False other than these two words themselves, so a   *)
(* substring match of ': True' on characters is a match of the three       *)
(* tokens ":", " ", "True".  Floats are modelled by integers.              *)
(***************************************************************************)
EXTENDS Integers, Sequences, FiniteSets, TLC

-----------------------------------------------------------------------------
(* Python / JSON values *)

VStr(s) == [t |-> "str", s |-> s, n |-> 0, b |-> FALSE]
VInt(n) == [t |-> "int", s |-> <<>>, n |-> n, b |-> FALSE]
VBool(b) == [t |-> "bool", s |-> <<>>, n |-> 0, b |-> b]
VNull == [t |-> "null", s |-> <<>>, n |-> 0, b |-> FALSE]

\* a one-word string
W(w) == VStr(<<w>>)

\* str(value), as str.format and Jinja2 print a value
PyStr(v) ==
    CASE v.t = "str" -> v.s
      [] v.t = "int" -> <<ToString(v.n)>>
      [] v.t = "bool" -> IF v.b THEN <<"True">> ELSE <<"False">>
      [] OTHER -> <<"None">>

\* bool(value): Python truthiness, as `{% if x %}` and `if not api_key` test it
Truthy(v) ==
    CASE v.t = "str" -> v.s # <<>>
      [] v.t = "int" -> v.n # 0
      [] v.t = "bool" -> v.b
      [] OTHER -> FALSE

\* Python's ==: a bool is an int (True == 1), a str equals only a str
PyEq(a, b) ==
    LET num(v) == IF v.t = "bool" THEN (IF v.b THEN 1 ELSE 0) ELSE v.n
    IN  CASE a.t = "str" /\ b.t = "str" -> a.s = b.s
          [] a.t \in {"int", "bool"} /\ b.t \in {"int", "bool"} -> num(a) = num(b)
          [] a.t = "null" /\ b.t = "null" -> TRUE
          [] OTHER -> FALSE

\* type(value).__name__, as the messages of TypeError quote it
TypeName(v) ==
    CASE v.t = "str" -> "str"
      [] v.t = "int" -> "int"
      [] v.t = "bool" -> "bool"
      [] OTHER -> "NoneType"

\* whether `value < number` is defined: it raises TypeError for str and None
Comparable(v) == v.t \in {"int", "bool"}
NumOf(v) == IF v.t = "bool" THEN (IF v.b THEN 1 ELSE 0) ELSE v.n

-----------------------------------------------------------------------------
(* JSON text *)

Q == "\""
Numerals == -1 .. 102
IsNumeral(tok) == \E n \in Numerals : ToString(n) = tok
NumeralValue(tok) == CHOOSE n \in Numerals : ToString(n) = tok

\* json.dumps of one value
DumpValue(v) ==
    CASE v.t = "str" -> <<Q>> \o v.s \o <<Q>>
      [] v.t = "int" -> <<ToString(v.n)>>
      [] v.t = "bool" -> IF v.b THEN <<"true">> ELSE <<"false">>
      [] OTHER -> <<"null">>

\* json.dumps of an object given as a sequence of <<key, value>> members
RECURSIVE DumpMembers(_)
DumpMembers(ms) ==
    IF ms = <<>> THEN <<>>
    ELSE <<Q, ms[1][1], Q, ":", " ">> \o DumpValue(ms[1][2])
         \o (IF Len(ms) > 1 THEN <<",", " ">> ELSE <<>>)
         \o DumpMembers(Tail(ms))

JsonDumps(ms) == <<"{">> \o DumpMembers(ms) \o <<"}">>

RECURSIVE SkipWs(_, _)
SkipWs(t, i) == IF i <= Len(t) /\ t[i] = " " THEN SkipWs(t, i + 1) ELSE i

\* index of the first quote at or after i, 0 when there is none
RECURSIVE FindQuote(_, _)
FindQuote(t, i) ==
    IF i > Len(t) THEN 0 ELSE IF t[i] = Q THEN i ELSE FindQuote(t, i + 1)

NoParse == [ok |-> FALSE, val |-> VNull, next |-> 0]

\* a string starting at the quote t[i]: the words up to the closing quote
ParseString(t, i) ==
    IF i > Len(t) \/ t[i] # Q THEN NoParse
    ELSE LET j == FindQuote(t, i + 1)
         IN  IF j = 0 THEN NoParse
             ELSE [ok |-> TRUE, val |-> VStr(SubSeq(t, i + 1, j - 1)), next |-> j + 1]

\* a scalar JSON value starting at t[i]
ParseValue(t, i) ==
    IF i > Len(t) THEN NoParse
    ELSE CASE t[i] = Q -> ParseString(t, i)
           [] t[i] = "true" -> [ok |-> TRUE, val |-> VBool(TRUE), next |-> i + 1]
           [] t[i] = "false" -> [ok |-> TRUE, val |-> VBool(FALSE), next |-> i + 1]
           [] t[i] = "null" -> [ok |-> TRUE, val |-> VNull, next |-> i + 1]
           [] IsNumeral(t[i]) ->
                [ok |-> TRUE, val |-> VInt(NumeralValue(t[i])), next |-> i + 1]
           [] OTHER -> NoParse

NoObject == [ok |-> FALSE, kind |-> "none", obj |-> <<>>, val |-> VNull]

\* the members of an object from t[i] on, after the opening brace or a comma;
\* acc holds the members read so far
RECURSIVE ParseMembers(_, _, _)
ParseMembers(t, i, acc) ==
    LET k == ParseString(t, SkipWs(t, i))
    IN  IF ~k.ok THEN NoObject
        ELSE LET c == SkipWs(t, k.next)
             IN  IF c > Len(t) \/ t[c] # ":" THEN NoObject
                 ELSE LET v == ParseValue(t, SkipWs(t, c + 1))
                      IN  IF ~v.ok THEN NoObject
                          ELSE LET e == SkipWs(t, v.next)
                                   got == Append(acc, <<k.val.s, v.val>>)
                               IN  IF e > Len(t) THEN NoObject
                                   ELSE IF t[e] = ","
                                        THEN ParseMembers(t, e + 1, got)
                                   ELSE IF t[e] = "}" /\ SkipWs(t, e + 1) > Len(t)
                                        THEN [ok |-> TRUE, kind |-> "object",
                                              obj |-> got, val |-> VNull]
                                   ELSE NoObject

\* json.loads: ok = FALSE stands for json.JSONDecodeError; a document is an
\* object (kind "object", its members in obj), a scalar (kind "scalar") or
\* the empty array (kind "array")
JsonLoads(t) ==
    LET i == SkipWs(t, 1)
    IN  IF i > Len(t) THEN NoObject
        ELSE IF t[i] = "{"
        THEN LET j == SkipWs(t, i + 1)
             IN  IF j <= Len(t) /\ t[j] = "}"
                 THEN (IF SkipWs(t, j + 1) > Len(t)
                       THEN [ok |-> TRUE, kind |-> "object", obj |-> <<>>, val |-> VNull]
                       ELSE NoObject)
                 ELSE ParseMembers(t, i + 1, <<>>)
        ELSE IF t[i] = "["
        THEN LET j == SkipWs(t, i + 1)
             IN  IF j <= Len(t) /\ t[j] = "]" /\ SkipWs(t, j + 1) > Len(t)
                 THEN [ok |-> TRUE, kind |-> "array", obj |-> <<>>, val |-> VNull]
                 ELSE NoObject
        ELSE LET v == ParseValue(t, i)
             IN  IF v.ok /\ SkipWs(t, v.next) > Len(t)
                 THEN [ok |-> TRUE, kind |-> "scalar", obj |-> <<>>, val |-> v.val]
                 ELSE NoObject

\* dict lookup in a parsed object (its members are <<key words, value>>): the
\* last member with the key wins
HasKey(obj, k) == \E i \in 1..Len(obj) : obj[i][1] = <<k>>
Lookup(obj, k) ==
    LET i == CHOOSE i \in 1..Len(obj) :
                 obj[i][1] = <<k>> /\ \A j \in (i + 1)..Len(obj) : obj[j][1] # <<k>>
    IN  obj[i][2]

-----------------------------------------------------------------------------
(* Configuration: app/config.py *)

\* ParameterConfig with its defaults: required = True, location = "query",
\* enum, min, max and default None.  enumSet / minSet / maxSet say that the
\* optional field is not None; a default of VNull is None.
ParameterConfig(name, type) ==
    [name |-> name, type |-> type, required |-> TRUE, location |-> "query",
     enumSet |-> FALSE, enum |-> <<>>, minSet |-> FALSE, min |-> 0,
     maxSet |-> FALSE, max |-> 0, default |-> VNull]

\* one piece of mqtt_topic: literal text, or a {name} replacement field
TLit(text) == [ph |-> FALSE, text |-> text]
TField(name) == [ph |-> TRUE, text |-> name]

\* one node of payload_template (Jinja2): literal text, {{ name }},
\* {{ now() }}, {{ name + 1 }}, {% if name %} body {% endif %}
Lit(toks) == [k |-> "lit", toks |-> toks, name |-> "", body |-> <<>>]
Var(name) == [k |-> "var", toks |-> <<>>, name |-> name, body |-> <<>>]
Now == [k |-> "now", toks |-> <<>>, name |-> "", body |-> <<>>]
Plus1(name) == [k |-> "plus1", toks |-> <<>>, name |-> name, body |-> <<>>]
IfSet(name, body) == [k |-> "if", toks |-> <<>>, name |-> name, body |-> body]

\* the template text `"key": `
Key(k) == <<Q, k, Q, ":", " ">>

\* RouteConfig with its defaults: method POST, parameters [], qos 0, retain False
RouteConfig(path, topic, template) ==
    [path |-> path, method |-> "POST", mqtt_topic |-> topic, parameters |-> <<>>,
     payload_template |-> template, qos |-> 0, retain |-> FALSE]

\* POST /test/simple?message=...
RouteSimple ==
    [RouteConfig("/test/simple", <<TLit("test/simple")>>,
        << Lit(<<"{">> \o Key("message") \o <<Q>>), Var("message"),
           Lit(<<Q, ",", " ">> \o Key("timestamp") \o <<Q>>), Now,
           Lit(<<Q, "}">>) >>)
     EXCEPT !.parameters = << ParameterConfig("message", "string") >>,
            !.qos = 1]

\* POST /device/{device_id}/control with body {"action": ...}
RouteDevice ==
    [RouteConfig("/device/{device_id}/control",
        <<TLit("test/devices/"), TField("device_id"), TLit("/command")>>,
        << Lit(<<"{">> \o Key("device") \o <<Q>>), Var("device_id"),
           Lit(<<Q, ",", " ">> \o Key("action") \o <<Q>>), Var("action"),
           Lit(<<Q, ",", " ">> \o Key("source") \o <<Q, "test", Q, "}">>) >>)
     EXCEPT !.parameters =
              << [ParameterConfig("device_id", "string") EXCEPT !.location = "path"],
                 [ParameterConfig("action", "string") EXCEPT
                    !.location = "body", !.enumSet = TRUE,
                    !.enum = << <<"on">>, <<"off">>, <<"toggle">> >>] >>,
            !.qos = 1]

\* POST /sensor/update with body {"sensor_id": ..., "value": ..., "unit": ...}
RouteSensor ==
    [RouteConfig("/sensor/update", <<TLit("test/sensor/data")>>,
        << Lit(<<"{">> \o Key("sensor") \o <<Q>>), Var("sensor_id"),
           Lit(<<Q, ",", " ">> \o Key("value")), Var("value"),
           Lit(<<",", " ">> \o Key("unit") \o <<Q>>), Var("unit"),
           Lit(<<Q, "}">>) >>)
     EXCEPT !.parameters =
              << [ParameterConfig("sensor_id", "string") EXCEPT !.location = "body"],
                 [ParameterConfig("value", "float") EXCEPT
                    !.location = "body", !.minSet = TRUE, !.min = 0,
                    !.maxSet = TRUE, !.max = 100],
                 [ParameterConfig("unit", "string") EXCEPT
                    !.location = "body", !.required = FALSE,
                    !.default = W("celsius")] >>,
            !.qos = 2]

\* GET /automation/trigger?scene=...&note=...: note is optional and has no default
RouteAutomation ==
    [RouteConfig("/automation/trigger", <<TLit("test/automation/scene")>>,
        << Lit(<<"{">> \o Key("scene") \o <<Q>>), Var("scene"),
           Lit(<<Q, ",", " ">> \o Key("note") \o <<Q>>), Var("note"),
           Lit(<<Q, ",", " ">> \o Key("mode") \o <<Q, "test", Q, "}">>) >>)
     EXCEPT !.method = "GET",
            !.parameters =
              << [ParameterConfig("scene", "string") EXCEPT
                    !.enumSet = TRUE, !.enum = << <<"morning">>, <<"evening">> >>],
                 [ParameterConfig("note", "string") EXCEPT !.required = FALSE] >>,
            !.qos = 1]

\* PUT /room/{room}/device/{device}/state with body {"state": ..., "brightness": ...}
RouteRoom ==
    [RouteConfig("/room/{room}/device/{device}/state",
        <<TLit("test/room/"), TField("room"), TLit("/device/"), TField("device"),
          TLit("/state")>>,
        << Lit(<<"{">> \o Key("room") \o <<Q>>), Var("room"),
           Lit(<<Q, ",", " ">> \o Key("device") \o <<Q>>), Var("device"),
           Lit(<<Q, ",", " ">> \o Key("state")), Var("state"),
           IfSet("brightness", << Lit(<<",", " ">> \o Key("brightness")),
                                  Var("brightness") >>),
           Lit(<<"}">>) >>)
     EXCEPT !.method = "PUT",
            !.parameters =
              << [ParameterConfig("room", "string") EXCEPT !.location = "path"],
                 [ParameterConfig("device", "string") EXCEPT !.location = "path"],
                 [ParameterConfig("state", "boolean") EXCEPT !.location = "body"],
                 [ParameterConfig("brightness", "integer") EXCEPT
                    !.location = "body", !.required = FALSE,
                    !.minSet = TRUE, !.min = 0, !.maxSet = TRUE, !.max = 100] >>,
            !.qos = 1, !.retain = TRUE]

\* GET /thermostat/set?level=...&mode=...: an optional bounded integer with no
\* default ahead of a required enum that sets a default all the same
RouteThermostat ==
    [RouteConfig("/thermostat/set", <<TLit("home/thermostat")>>,
        << Lit(<<"{">> \o Key("mode") \o <<Q>>), Var("mode"),
           Lit(<<Q, ",", " ">> \o Key("level")), Var("level"), Lit(<<"}">>) >>)
     EXCEPT !.method = "GET",
            !.parameters =
              << [ParameterConfig("level", "integer") EXCEPT
                    !.required = FALSE, !.minSet = TRUE, !.min = 1,
                    !.maxSet = TRUE, !.max = 10],
                 [ParameterConfig("mode", "string") EXCEPT
                    !.enumSet = TRUE, !.enum = << <<"eco">>, <<"comfort">> >>,
                    !.default = W("eco")] >>]

\* POST /alert with body {"zone": ..., "count": ...}: the topic names the
\* optional zone, the payload computes count + 1
RouteAlert ==
    [RouteConfig("/alert", <<TLit("alerts/"), TField("zone")>>,
        << Lit(<<"{">> \o Key("next")), Plus1("count"), Lit(<<"}">>) >>)
     EXCEPT !.parameters =
              << [ParameterConfig("zone", "string") EXCEPT
                    !.location = "body", !.required = FALSE],
                 [ParameterConfig("count", "integer") EXCEPT
                    !.location = "body"] >>,
            !.qos = 2]

\* POST /notify?channel=... with body {"text": ..., "tag": ...}: every
\* parameter is optional; channel and text have defaults, tag has none
RouteNotify ==
    [RouteConfig("/notify", <<TLit("notify/"), TField("channel")>>,
        << Lit(<<"{">> \o Key("text") \o <<Q>>), Var("text"), Lit(<<Q>>),
           IfSet("tag", << Lit(<<",", " ">> \o Key("tag") \o <<Q>>), Var("tag"),
                           Lit(<<Q>>) >>),
           Lit(<<"}">>) >>)
     EXCEPT !.parameters =
              << [ParameterConfig("channel", "string") EXCEPT
                    !.required = FALSE, !.default = W("general")],
                 [ParameterConfig("text", "string") EXCEPT
                    !.location = "body", !.required = FALSE, !.default = W("ping")],
                 [ParameterConfig("tag", "string") EXCEPT
                    !.location = "body", !.required = FALSE] >>]

\* POST /switch with body {"on": ...}: the template writes the boolean right
\* after the colon, {"on":{{ on }}}
RouteSwitch ==
    [RouteConfig("/switch", <<TLit("home/switch")>>,
        << Lit(<<"{", Q, "on", Q, ":">>), Var("on"), Lit(<<"}">>) >>)
     EXCEPT !.parameters =
              << [ParameterConfig("on", "boolean") EXCEPT !.location = "body"] >>]

\* POST /label with body {"label": ..., "on": ...}: free text next to a
\* boolean, {"label": "{{ label }}", "on": {{ on }}}
RouteLabel ==
    [RouteConfig("/label", <<TLit("home/label")>>,
        << Lit(<<"{">> \o Key("label") \o <<Q>>), Var("label"),
           Lit(<<Q, ",", " ">> \o Key("on")), Var("on"), Lit(<<"}">>) >>)
     EXCEPT !.parameters =
              << [ParameterConfig("label", "string") EXCEPT !.location = "body"],
                 [ParameterConfig("on", "boolean") EXCEPT !.location = "body"] >>]

\* the configuration document's routes
ConfigRoutes ==
    << RouteSimple, RouteDevice, RouteSensor, RouteAutomation, RouteRoom,
       RouteThermostat, RouteAlert, RouteNotify, RouteSwitch, RouteLabel >>

\* the names of a route's parameters, and the parameters at one location
\* (route_builder.py separates them that way)
ParamNames(params) == {params[i].name : i \in 1..Len(params)}
ParamsAt(config, location) ==
    SelectSeq(config.parameters, LAMBDA p : p.location = location)

-----------------------------------------------------------------------------
(* Rendering *)

\* dict update: all_params[name] = value
Put(all, name, value) ==
    [k \in DOMAIN all \cup {name} |-> IF k = name THEN value ELSE all[k]]

EmptyParams == [k \in {} |-> VNull]

\* config.mqtt_topic.format(**all_params): a replacement field whose name is
\* not a key raises KeyError
RECURSIVE FormatTopic(_, _)
FormatTopic(parts, all) ==
    IF parts = <<>> THEN [ok |-> TRUE, exc |-> "", out |-> <<>>]
    ELSE LET p == parts[1]
             rest == FormatTopic(Tail(parts), all)
         IN  IF p.ph /\ p.text \notin DOMAIN all
             THEN [ok |-> FALSE, exc |-> "KeyError", out |-> <<p.text>>]
             ELSE IF ~rest.ok THEN rest
             ELSE [ok |-> TRUE, exc |-> "",
                   out |-> (IF p.ph THEN PyStr(all[p.text]) ELSE <<p.text>>) \o rest.out]

\* the value of datetime.now().isoformat(), one word
Timestamp == "2026-01-01T00-00-00"

\* Template(config.payload_template).render(**template_context): an undefined
\* name prints as the empty string and is false in a test; arithmetic on an
\* undefined name, on a str or on None raises, and out is then str(e)
RECURSIVE RenderNodes(_, _)
RenderNodes(nodes, all) ==
    IF nodes = <<>> THEN [ok |-> TRUE, exc |-> "", out |-> <<>>]
    ELSE LET nd == nodes[1]
             defined == nd.name \in DOMAIN all
             head ==
                CASE nd.k = "lit" -> [ok |-> TRUE, exc |-> "", out |-> nd.toks]
                  [] nd.k = "var" ->
                       [ok |-> TRUE, exc |-> "",
                        out |-> IF defined THEN PyStr(all[nd.name]) ELSE <<>>]
                  [] nd.k = "now" -> [ok |-> TRUE, exc |-> "", out |-> <<Timestamp>>]
                  [] nd.k = "plus1" ->
                       IF ~defined
                       THEN [ok |-> FALSE, exc |-> "UndefinedError",
                             out |-> <<nd.name, "is undefined">>]
                       ELSE IF ~Comparable(all[nd.name])
                       THEN [ok |-> FALSE, exc |-> "TypeError",
                             out |-> IF all[nd.name].t = "str"
                                     THEN <<"can only concatenate str (not int) to str">>
                                     ELSE <<"unsupported operand type(s) for +",
                                            TypeName(all[nd.name]), "int">>]
                       ELSE [ok |-> TRUE, exc |-> "",
                             out |-> <<ToString(NumOf(all[nd.name]) + 1)>>]
                  [] OTHER ->
                       IF defined /\ Truthy(all[nd.name])
                       THEN RenderNodes(nd.body, all)
                       ELSE [ok |-> TRUE, exc |-> "", out |-> <<>>]
         IN  IF ~head.ok THEN head
             ELSE LET rest == RenderNodes(Tail(nodes), all)
                  IN  IF ~rest.ok THEN rest
                      ELSE [ok |-> TRUE, exc |-> "", out |-> head.out \o rest.out]

\* text.replace(old, new) for a three-token old and new: left to right, not
\* overlapping
RECURSIVE Replace3(_, _, _)
Replace3(t, old, new) ==
    IF Len(t) < 3 THEN t
    ELSE IF SubSeq(t, 1, 3) = old
         THEN new \o Replace3(SubSeq(t, 4, Len(t)), old, new)
         ELSE <<t[1]>> \o Replace3(Tail(t), old, new)

\* payload.replace(': True', ': true').replace(': False', ': false')
FixBooleans(payload) ==
    Replace3(Replace3(payload, <<":", " ", "True">>, <<":", " ", "true">>),
             <<":", " ", "False">>, <<":", " ", "false">>)

-----------------------------------------------------------------------------
(* Authentication: app/auth.py *)

NoExc == [exc |-> "", status |-> 0, detail |-> <<>>]
Raise(exc, status, detail) == [exc |-> exc, status |-> status, detail |-> detail]
HTTPException(status, detail) == Raise("HTTPException", status, detail)

\* APIKeyHeader(name="X-API-Key", auto_error=False): the header's value, None
\* when the header is absent or empty
ApiKeyHeader(header) == IF Truthy(header) THEN header ELSE VNull

\* verify_api_key checking only a credential that is there
VerifyApiKey_OnlyIfPresent(api_key, expected_api_key) ==
    IF ~Truthy(expected_api_key) THEN [exc |-> NoExc, ret |-> W("disabled")]
    ELSE IF Truthy(api_key) /\ api_key # expected_api_key
         THEN [exc |-> HTTPException(401, <<"Invalid API key">>), ret |-> VNull]
    ELSE [exc |-> NoExc, ret |-> api_key]

\* verify_api_key without the comparison with the expected key
VerifyApiKey_NoCompare(api_key, expected_api_key) ==
    IF ~Truthy(expected_api_key) THEN [exc |-> NoExc, ret |-> W("disabled")]
    ELSE IF ~Truthy(api_key)
         THEN [exc |-> HTTPException(401, <<"Missing API key">>), ret |-> VNull]
    ELSE [exc |-> NoExc, ret |-> api_key]

\* verify_api_key without the branch for an unset API_KEY
VerifyApiKey_AlwaysEnforced(api_key, expected_api_key) ==
    IF ~Truthy(api_key)
    THEN [exc |-> HTTPException(401, <<"Missing API key">>), ret |-> VNull]
    ELSE IF api_key # expected_api_key
         THEN [exc |-> HTTPException(401, <<"Invalid API key">>), ret |-> VNull]
    ELSE [exc |-> NoExc, ret |-> api_key]

\* verify_api_key: the exception it raises (NoExc when it returns) and the
\* value it returns
VerifyApiKey(api_key, expected_api_key) ==
    IF ~Truthy(expected_api_key) THEN [exc |-> NoExc, ret |-> W("disabled")]
    ELSE IF ~Truthy(api_key)
         THEN [exc |-> HTTPException(401, <<"Missing API key">>), ret |-> VNull]
    ELSE IF api_key # expected_api_key
         THEN [exc |-> HTTPException(401, <<"Invalid API key">>), ret |-> VNull]
    ELSE [exc |-> NoExc, ret |-> api_key]

-----------------------------------------------------------------------------
(* The generated signature: Query(...) / Query(default=...) / Path(...) *)

Absent == "<absent>"
BoolWords ==
    [w \in {"true", "1", "on", "yes", "false", "0", "off", "no"} |->
        w \in {"true", "1", "on", "yes"}]

\* _get_python_type and the framework's conversion of a raw text to it
ConvertOk(type, raw) ==
    CASE type \in {"integer", "float"} -> IsNumeral(raw)
      [] type = "boolean" -> raw \in DOMAIN BoolWords
      [] OTHER -> TRUE
Convert(type, raw) ==
    CASE type \in {"integer", "float"} -> VInt(NumeralValue(raw))
      [] type = "boolean" -> VBool(BoolWords[raw])
      [] OTHER -> W(raw)

\* the request-validation errors of the declared path and query parameters, in
\* order: a required one that is missing, a value that does not convert
RECURSIVE SignatureErrors(_, _)
SignatureErrors(params, raw) ==
    IF params = <<>> THEN <<>>
    ELSE LET p == params[1]
             r == raw[p.name]
             here ==
                IF p.location = "body" THEN <<>>
                ELSE IF r = Absent
                     THEN (IF p.required \/ p.location = "path"
                           THEN <<"missing", p.location, p.name>> ELSE <<>>)
                ELSE IF ~ConvertOk(p.type, r)
                     THEN <<"parsing", p.location, p.name>>
                ELSE <<>>
         IN  here \o SignatureErrors(Tail(params), raw)

\* the keyword arguments the endpoint is called with: every declared path and
\* query parameter, an omitted optional query parameter at its declared
\* default (param.default, None when the route sets none)
Kwargs(config, raw) ==
    LET ps == config.parameters
        idx(n) == CHOOSE i \in 1..Len(ps) : ps[i].name = n
    IN  [n \in {ps[i].name : i \in {j \in 1..Len(ps) : ps[j].location # "body"}} |->
            IF raw[n] = Absent THEN ps[idx(n)].default
            ELSE Convert(ps[idx(n)].type, raw[n])]

-----------------------------------------------------------------------------
(* The endpoint: RouteBuilder._create_route.endpoint *)

\* lines 44-51: for param in path_params / query_params: if param.name in kwargs
RECURSIVE CollectKwargs(_, _, _)
CollectKwargs(params, kwargs, all) ==
    IF params = <<>> THEN all
    ELSE CollectKwargs(Tail(params), kwargs,
            IF params[1].name \in DOMAIN kwargs
            THEN Put(all, params[1].name, kwargs[params[1].name]) ELSE all)

\* lines 58-62: a body key that is present is copied, an absent optional one
\* takes its default when that is not None
RECURSIVE CopyBody(_, _, _)
CopyBody(params, body_data, all) ==
    IF params = <<>> THEN all
    ELSE LET p == params[1]
         IN  CopyBody(Tail(params), body_data,
                IF HasKey(body_data, p.name) THEN Put(all, p.name, Lookup(body_data, p.name))
                ELSE IF ~p.required /\ p.default # VNull THEN Put(all, p.name, p.default)
                ELSE all)

\* the defaults written without the test `param.name not in all_params`
RECURSIVE ApplyDefaults_Overwrites(_, _)
ApplyDefaults_Overwrites(params, all) ==
    IF params = <<>> THEN all
    ELSE LET p == params[1]
         IN  ApplyDefaults_Overwrites(Tail(params),
                IF ~p.required /\ p.default # VNull
                THEN Put(all, p.name, p.default) ELSE all)

\* lines 69-71
RECURSIVE ApplyDefaults(_, _)
ApplyDefaults(params, all) ==
    IF params = <<>> THEN all
    ELSE LET p == params[1]
         IN  ApplyDefaults(Tail(params),
                IF p.name \notin DOMAIN all /\ ~p.required /\ p.default # VNull
                THEN Put(all, p.name, p.default) ELSE all)

\* the bounds compared as if they were exclusive (<= and >=)
ValidateParam_Exclusive(p, value) ==
    IF p.enumSet /\ ~\E i \in 1..Len(p.enum) : PyEq(value, VStr(p.enum[i]))
    THEN HTTPException(422, <<"Invalid value for", p.name>>)
    ELSE IF p.type \notin {"integer", "float"} THEN NoExc
    ELSE IF p.minSet /\ ~Comparable(value)
         THEN Raise("TypeError", 0, <<"'<' not supported between", TypeName(value), "float">>)
    ELSE IF p.minSet /\ NumOf(value) <= p.min
         THEN HTTPException(422, <<"must be at least", p.name>>)
    ELSE IF p.maxSet /\ ~Comparable(value)
         THEN Raise("TypeError", 0, <<"'>' not supported between", TypeName(value), "float">>)
    ELSE IF p.maxSet /\ NumOf(value) >= p.max
         THEN HTTPException(422, <<"must be at most", p.name>>)
    ELSE NoExc

\* lines 76-99 for one populated parameter: the exception raised, or NoExc
ValidateParam(p, value) ==
    IF p.enumSet /\ ~\E i \in 1..Len(p.enum) : PyEq(value, VStr(p.enum[i]))
    THEN HTTPException(422, <<"Invalid value for", p.name>>)
    ELSE IF p.type \notin {"integer", "float"} THEN NoExc
    ELSE IF p.minSet /\ ~Comparable(value)
         THEN Raise("TypeError", 0, <<"'<' not supported between", TypeName(value), "float">>)
    ELSE IF p.minSet /\ NumOf(value) < p.min
         THEN HTTPException(422, <<"must be at least", p.name>>)
    ELSE IF p.maxSet /\ ~Comparable(value)
         THEN Raise("TypeError", 0, <<"'>' not supported between", TypeName(value), "float">>)
    ELSE IF p.maxSet /\ NumOf(value) > p.max
         THEN HTTPException(422, <<"must be at most", p.name>>)
    ELSE NoExc

\* lines 74-99: the first exception in the order of config.parameters
RECURSIVE Validate(_, _)
Validate(params, all) ==
    IF params = <<>> THEN NoExc
    ELSE LET p == params[1]
             e == IF p.name \in DOMAIN all THEN ValidateParam(p, all[p.name]) ELSE NoExc
         IN  IF e # NoExc THEN e ELSE Validate(Tail(params), all)

\* where the endpoint stands: the exception raised (NoExc when none), the
\* stage it was raised in or reached, and the locals
Frame(exc, stage, all, topic, payload, payload_json) ==
    [exc |-> exc, stage |-> stage, all |-> all, topic |-> topic,
     payload |-> payload, payload_json |-> payload_json]

NoJson == [kind |-> "none", obj |-> <<>>, val |-> VNull]

\* a byte that is no UTF-8 (0xff), as one token of a request body
BadByte == "<0xff>"

\* await request.json(), which is json.loads of the body's bytes: the
\* exception it raises (UnicodeDecodeError for bytes that are no UTF-8,
\* json.JSONDecodeError for text that is no JSON document) and the document
RequestJson(text) ==
    IF \E i \in 1..Len(text) : text[i] = BadByte
    THEN [exc |-> Raise("UnicodeDecodeError", 0, <<"'utf-8' codec can't decode byte">>),
          doc |-> NoObject]
    ELSE LET doc == JsonLoads(text)
         IN  [exc |-> IF doc.ok THEN NoExc
                       ELSE Raise("JSONDecodeError", 0, <<"Expecting value">>),
              doc |-> doc]

\* request.json() when the client has gone while the body was awaited: the
\* stream raises ClientDisconnect
Disconnected == [exc |-> Raise("ClientDisconnect", 0, <<>>), doc |-> NoObject]

\* the inner try statement catching every exception, not only JSONDecodeError
BodyReadFailure_CatchAll(body_params, e) ==
    IF \E i \in 1..Len(body_params) : body_params[i].required
    THEN HTTPException(400, <<"Invalid JSON in request body">>)
    ELSE NoExc

\* lines 63-66: the exception that leaves the inner try statement when
\* request.json() raised e; only json.JSONDecodeError is caught there
BodyReadFailure(body_params, e) ==
    IF e.exc = "JSONDecodeError"
    THEN (IF \E i \in 1..Len(body_params) : body_params[i].required
          THEN HTTPException(400, <<"Invalid JSON in request body">>)
          ELSE NoExc)
    ELSE e

\* lines 54-66 given what request.json() raised or returned
BodyOutcome(config, all, read) ==
    LET body_params == ParamsAt(config, "body")
        doc == read.doc
    IN  IF read.exc # NoExc
        THEN [exc |-> BodyReadFailure(body_params, read.exc), all |-> all]
        ELSE IF doc.kind = "scalar" /\ doc.val.t # "str"
             \* `name in body_data` on an int, a bool or None
             THEN [exc |-> Raise("TypeError", 0,
                              <<"argument of type", TypeName(doc.val), "is not iterable">>),
                   all |-> all]
        ELSE IF doc.kind = "scalar"
             \* on a str it is a substring test, and body_data[name] then raises
             THEN (IF \E i \in 1..Len(body_params) :
                         \E j \in 1..Len(doc.val.s) : doc.val.s[j] = body_params[i].name
                   THEN [exc |-> Raise("TypeError", 0, <<"string indices must be integers">>),
                         all |-> all]
                   ELSE [exc |-> NoExc, all |-> CopyBody(body_params, <<>>, all)])
        ELSE [exc |-> NoExc, all |-> CopyBody(body_params, doc.obj, all)]

\* lines 68-118, from the defaults to the parsed payload: the frame at the
\* publish call, or at the exception raised before it
ResolveAndRender(config, all0) ==
    LET all == ApplyDefaults(config.parameters, all0)
        bad == Validate(config.parameters, all)
        topic == FormatTopic(config.mqtt_topic, all)
        rendered == RenderNodes(config.payload_template, all)
        payload == FixBooleans(rendered.out)
        payload_json == JsonLoads(payload)
    IN  IF bad # NoExc THEN Frame(bad, "validate", all, <<>>, <<>>, NoJson)
        ELSE IF ~topic.ok
             THEN Frame(Raise("KeyError", 0, topic.out), "topic", all, <<>>, <<>>, NoJson)
        ELSE IF ~rendered.ok
             THEN Frame(Raise(rendered.exc, 0, rendered.out), "render", all, topic.out,
                        <<>>, NoJson)
        ELSE IF ~payload_json.ok
             THEN Frame(Raise("JSONDecodeError", 0, <<"Expecting value">>), "json", all, topic.out,
                        payload, NoJson)
        ELSE Frame(NoExc, "publish", all, topic.out, payload,
                   [kind |-> payload_json.kind, obj |-> payload_json.obj,
                    val |-> payload_json.val])

\* lines 40-118 given what request.json() raised or returned (for a route
\* with no body parameter it is never called)
EndpointAfterRead(config, kwargs, read) ==
    LET all1 == CollectKwargs(ParamsAt(config, "query"), kwargs,
                   CollectKwargs(ParamsAt(config, "path"), kwargs, EmptyParams))
        body == IF ParamsAt(config, "body") # <<>> THEN BodyOutcome(config, all1, read)
                ELSE [exc |-> NoExc, all |-> all1]
    IN  IF body.exc # NoExc THEN Frame(body.exc, "body", body.all, <<>>, <<>>, NoJson)
        ELSE ResolveAndRender(config, body.all)

\* lines 40-118 for a request whose body is the text
EndpointToPublish(config, kwargs, text) ==
    EndpointAfterRead(config, kwargs, RequestJson(text))

\* the except clauses answering a JSONDecodeError as the body's handler does
HandleException_JsonAs400(e) ==
    CASE e.exc = "HTTPException" -> e
      [] e.exc \in {"KeyError", "JSONDecodeError"} ->
           HTTPException(400, <<"Missing required parameter">> \o e.detail)
      [] OTHER -> HTTPException(500, <<"Internal error">> \o e.detail)

\* lines 135-146: the HTTPException the except clauses turn an exception into
HandleException(e) ==
    CASE e.exc = "HTTPException" -> e
      [] e.exc = "KeyError" ->
           HTTPException(400, <<"Missing required parameter">> \o e.detail)
      [] e.exc = "JSONDecodeError" ->
           HTTPException(500, <<"Invalid JSON in payload template">> \o e.detail)
      [] OTHER -> HTTPException(500, <<"Internal error">> \o e.detail)

\* an HTTP response: an error's status and detail, or 200 with the result
\* {"status": ..., "topic": ..., "payload": ...} of lines 129-133
ErrorResponse(e) ==
    [status |-> e.status, detail |-> e.detail, result |-> "", topic |-> <<>>,
     payload |-> NoJson]
\* the result holding the payload text instead of its parse
Published_RawString(frame) ==
    [status |-> 200, detail |-> <<>>, result |-> "published", topic |-> frame.topic,
     payload |-> [kind |-> "scalar", obj |-> <<>>, val |-> VStr(frame.payload)]]

Published(frame) ==
    [status |-> 200, detail |-> <<>>, result |-> "published", topic |-> frame.topic,
     payload |-> frame.payload_json]
NoResponse ==
    [status |-> 0, detail |-> <<>>, result |-> "", topic |-> <<>>, payload |-> NoJson]

-----------------------------------------------------------------------------
(* The publish sink: app/mqtt_client.py *)

\* MQTTManager.__init__: no client yet
NewManager ==
    [client |-> "None", created |-> 0, entered |-> 0, exited |-> 0, log |-> <<>>]

\* the keyword arguments of Client(...) at lines 18-25
ClientKeywords ==
    {"hostname", "port", "username", "password", "client_id", "keepalive"}

\* a call on the aiomqtt side: the constructor, __aenter__ or __aexit__ of the
\* client numbered in the order of construction
ClientEvent(op, client, kw) == [op |-> op, client |-> client, kw |-> kw]

\* what connect can meet: the client is entered ("connected"), __aenter__
\* raises ("refused"), or Client(...) itself raises ("rejected")
ConnectOutcomes == {"connected", "refused", "rejected"}

\* MQTTManager.connect, lines 15-27: self.client is assigned the new client
\* at line 18, before __aenter__ is awaited at line 26
ManagerConnect(m, outcome) ==
    IF outcome = "rejected" THEN m
    ELSE [m EXCEPT !.client = "Client", !.created = @ + 1,
                   !.entered = IF outcome = "connected" THEN @ + 1 ELSE @,
                   !.log = @ \o << ClientEvent("Client", m.created + 1, ClientKeywords),
                                   ClientEvent("__aenter__", m.created + 1, {}) >>]

\* what connect raises
ConnectRaises(outcome) ==
    CASE outcome = "connected" -> NoExc
      [] outcome = "refused" -> Raise("MqttError", 0, <<>>)
      [] outcome = "rejected" -> Raise("TypeError", 0, <<>>)

\* MQTTManager.disconnect, lines 29-34: the client held, if any, is exited;
\* self.client is left as it is
ManagerDisconnect(m) ==
    IF m.client # "None"
    THEN [m EXCEPT !.exited = @ + 1,
                   !.log = Append(@, ClientEvent("__aexit__", m.created, {}))]
    ELSE m

\* MQTTManager.is_connected, lines 52-55
IsConnected(m) == m.client # "None"

\* no method has been called on the manager directly
NoCall == [op |-> "", exc |-> NoExc, calls |-> <<>>, result |-> VNull]

\* MQTTManager.publish without its guard
PublishGuard_Absent(manager) == NoExc

\* the guard of MQTTManager.publish, lines 38-40: RuntimeError without a client
PublishGuard(manager) ==
    IF manager.client = "None" THEN Raise("RuntimeError", 0, <<"MQTT client not connected">>)
    ELSE NoExc

\* MQTTManager.publish logging the exception without raising it again
PublishFailure_Swallowed(e) == NoExc

\* lines 45-50: what MQTTManager.publish raises when self.client.publish raised
\* e: it logs and re-raises
PublishFailure(e) == e

\* the arguments of self.client.publish(topic, payload, qos=qos, retain=retain)
PublishCall(topic, payload, qos, retain) ==
    [topic |-> topic, payload |-> payload, qos |-> qos, retain |-> retain]

-----------------------------------------------------------------------------
(* Registration: RouteBuilder.build_routes and _create_route *)

\* the parameters the endpoint's own signature has (line 36, kept at line 166)
SignatureNames == {"request", "api_key"}

\* lines 148-182: sig.replace(parameters=new_params) raises ValueError
\* ("duplicate parameter name") when a query or path parameter is named like
\* one of the endpoint's own
CreateRouteRaises(config) ==
    \E i \in 1..Len(config.parameters) :
       /\ config.parameters[i].location # "body"
       /\ config.parameters[i].name \in SignatureNames

\* a handler that looks its descriptor up when it is called, and finds the one
\* the loop of build_routes ended on
CreateRoute_LateBinding(route_configs, i) ==
    [route_configs[Len(route_configs)] EXCEPT
        !.path = route_configs[i].path, !.method = route_configs[i].method]

\* _create_route(route_configs[i]): the handler registered under the route's
\* method and path, given as the descriptor its closure holds - `config`, the
\* argument of this very call
CreateRoute(route_configs, i) == route_configs[i]

\* build_routes, lines 23-25: the routes on RouteBuilder.router when the loop
\* ends or _create_route raises, and whether it raised
RECURSIVE BuildRoutesLoop(_, _, _)
BuildRoutesLoop(route_configs, i, built) ==
    IF i > Len(route_configs) THEN [raised |-> FALSE, router |-> built]
    ELSE IF CreateRouteRaises(route_configs[i]) THEN [raised |-> TRUE, router |-> built]
    ELSE BuildRoutesLoop(route_configs, i + 1, Append(built, CreateRoute(route_configs, i)))

\* the route a request for (method, path) is dispatched to: routes are tried
\* in the order of their registration (line 187) and the first match wins
Match(routes, method, path) ==
    CHOOSE i \in 1..Len(routes) :
       /\ routes[i].method = method /\ routes[i].path = path
       /\ \A j \in 1..(i - 1) : ~(routes[j].method = method /\ routes[j].path = path)

-----------------------------------------------------------------------------
(* Configuration load: pydantic's validation of the document *)

ValidParameterConfig(p) ==
    /\ p.type \in {"string", "integer", "float", "boolean"}
    /\ p.location \in {"query", "path", "body"}

ValidRouteConfig(r) ==
    /\ r.method \in {"GET", "POST", "PUT", "DELETE"}
    /\ r.qos \in 0..2
    /\ \A i \in 1..Len(r.parameters) : ValidParameterConfig(r.parameters[i])

\* Config.load_from_yaml: cls(**data) raises unless every route validates
LoadsFromYaml(doc) == \A i \in 1..Len(doc) : ValidRouteConfig(doc[i])

\* a load that leaves out the routes that do not validate
LoadFromYaml_SkipInvalid(doc) ==
    [raised |-> FALSE, routes |-> SelectSeq(doc, ValidRouteConfig)]

\* Config.load_from_yaml, lines 41-45: the Config of the whole document, or
\* the ValidationError of cls(**data)
LoadFromYaml(doc) ==
    IF LoadsFromYaml(doc) THEN [raised |-> FALSE, routes |-> doc]
    ELSE [raised |-> TRUE, routes |-> <<>>]

\* POST /keyed?api_key=...: a query parameter named like the endpoint's own
RouteKeyed ==
    [RouteConfig("/keyed", <<TLit("test/keyed")>>,
        << Lit(<<"{">> \o Key("key") \o <<Q>>), Var("api_key"), Lit(<<Q, "}">>) >>)
     EXCEPT !.parameters = << ParameterConfig("api_key", "string") >>]

\* a second POST /test/simple, with another topic, qos and retain
RouteSimpleTwin ==
    [RouteSimple EXCEPT !.mqtt_topic = <<TLit("test/twin")>>, !.qos = 2, !.retain = TRUE]

\* documents with a route that breaks the schema: the method, the qos, a
\* parameter's type
DocBadMethod == << RouteSimple, [RouteSimple EXCEPT !.method = "PATCH"] >>
DocBadQos == << RouteSimple, [RouteAutomation EXCEPT !.qos = 3] >>
DocBadType ==
    << RouteSimple,
       [RouteAutomation EXCEPT !.parameters[2] = ParameterConfig("note", "uuid")],
       RouteAlert >>
\* a document whose second route cannot be registered
DocUnregistrable == << RouteSimple, RouteKeyed, RouteAutomation >>
\* a document with the same (method, path) twice
DocDuplicate == << RouteSimple, RouteSimpleTwin >>
\* two of the routes in another order
DocReordered == << RouteAlert, RouteSimple >>

\* the documents the process may be started on
Documents ==
    { ConfigRoutes, DocBadMethod, DocBadQos, DocBadType, DocUnregistrable,
      DocDuplicate, DocReordered }

\* the values the API_KEY environment variable may hold: unset, empty, a key
ApiKeys == { VNull, VStr(<<>>), W("test-api-key") }

-----------------------------------------------------------------------------
(* Requests *)

\* the X-API-Key header of a request: absent, empty, the key, another key
Headers == { VNull, VStr(<<>>), W("test-api-key"), W("invalid-key") }

\* the raw texts tried for a path or query parameter
RawCandidates(p) ==
    IF p.location = "path" THEN {"lamp-01"}
    ELSE CASE p.enumSet -> {p.enum[1][1], "invalid"}
           [] p.type \in {"integer", "float"} /\ p.minSet /\ p.maxSet ->
                {ToString(p.min - 1), ToString(p.min), ToString((p.min + p.max) \div 2),
                 ToString(p.max), ToString(p.max + 1), "abc"}
           [] p.type = "boolean" -> {"true", "false"}
           [] OTHER -> {"hello"}

\* the JSON values tried for a body parameter
BodyCandidates(p) ==
    CASE p.enumSet -> {W(p.enum[1][1]), W("invalid")}
      [] p.type \in {"integer", "float"} /\ p.minSet /\ p.maxSet ->
           {VInt(p.min - 1), VInt(p.min), VInt(75), VInt(p.max), VInt(p.max + 1), W("hot")}
      [] p.type \in {"integer", "float"} -> {VInt(1), W("hot")}
      [] p.type = "boolean" -> {VBool(TRUE), VBool(FALSE)}
      [] p.name = "label" -> {W("kelvin"), VStr(<<"is", ":", " ", "True">>)}
      [] OTHER -> {W("kelvin")}

AllRaw == {"lamp-01", "invalid", "abc", "true", "false", "hello", "on", "morning",
           "eco", "0", "1", "5", "10", "11"}

\* the path and query values of a request to a route: one raw text for every
\* path parameter, one or none (Absent) for every query parameter
RawChoices(config) ==
    LET ps == config.parameters
        names == {ps[i].name : i \in {j \in 1..Len(ps) : ps[j].location # "body"}}
        param(n) == ps[CHOOSE i \in 1..Len(ps) : ps[i].name = n]
    IN  { f \in [names -> AllRaw \cup {Absent}] :
            \A n \in names :
               \/ f[n] \in RawCandidates(param(n))
               \/ f[n] = Absent /\ param(n).location = "query" }

AbsentValue == [t |-> "absent", s |-> <<>>, n |-> 0, b |-> FALSE]

\* the members json.dumps writes for the chosen values, in parameter order
RECURSIVE Members(_, _)
Members(params, chosen) ==
    IF params = <<>> THEN <<>>
    ELSE (IF chosen[params[1].name] = AbsentValue THEN <<>>
          ELSE << <<params[1].name, chosen[params[1].name]>> >>)
         \o Members(Tail(params), chosen)

AllBodyValues ==
    UNION { UNION { BodyCandidates(ConfigRoutes[i].parameters[j]) :
                      j \in 1..Len(ConfigRoutes[i].parameters) } :
              i \in 1..Len(ConfigRoutes) } \cup {AbsentValue}

\* request bodies that are JSON but no object: a number, null, an array, a
\* string
NonObjectBodies == { <<"5">>, <<"null">>, <<"[", "]">>, <<Q, "kelvin", Q>> }

\* the request bodies sent to a route: for a route with body parameters a JSON
\* object holding any of them, JSON that is no object, text that is not JSON,
\* nothing, or bytes that are no text
BodyChoices(config) ==
    LET ps == ParamsAt(config, "body")
        names == ParamNames(ps)
        param(n) == ps[CHOOSE i \in 1..Len(ps) : ps[i].name = n]
    IN  IF ps = <<>> THEN { <<>> }
        ELSE { JsonDumps(Members(ps, f)) :
                 f \in { g \in [names -> AllBodyValues] :
                           \A n \in names :
                              g[n] = AbsentValue \/ g[n] \in BodyCandidates(param(n)) } }
             \cup { <<"not-json">>, <<>>, <<BadByte>> } \cup NonObjectBodies

NoFrame == Frame(NoExc, "none", EmptyParams, <<>>, <<>>, NoJson)

\* a request slot: pc is where the request stands; route, header, raw and body
\* are what the client sent; auth is what verify_api_key returned, entered says
\* that the endpoint was called, bodyRead that request.json() was awaited,
\* frame is the endpoint's frame, calls are its calls of self.client.publish,
\* acked says that the call returned, raised that it raised, cancelledAt is
\* the pc at which the client went away ("" while it has not)
IdleRequest ==
    [pc |-> "idle", route |-> 0, header |-> VNull, raw |-> EmptyParams, body |-> <<>>,
     auth |-> VNull, entered |-> FALSE, bodyRead |-> FALSE, kwargs |-> EmptyParams,
     frame |-> NoFrame, calls |-> <<>>, acked |-> FALSE, raised |-> FALSE,
     cancelledAt |-> "", response |-> NoResponse]

MaxRequests == 3

VARIABLES
    phase,      \* lifespan: "start", "loaded", "connected", "serving", "stopped";
                \* "exited" after sys.exit(1), "crashed" after an exception
    api_key,    \* os.getenv("API_KEY")
    document,   \* the routes of the configuration document
    config,     \* main.config: the loaded routes, <<>> before the load
    manager,    \* main.mqtt_manager
    router,     \* RouteBuilder.router: the registered routes
    req,        \* the request whose coroutine runs
    peer,       \* a second request in flight, suspended at an await
    served,     \* requests accepted so far
    caller      \* the last method called on the manager directly, and what
                \* the call gave

vars == <<phase, api_key, document, config, manager, router, req, peer, served,
          caller>>

Init ==
    /\ phase = "start"
    /\ api_key \in ApiKeys
    /\ document \in Documents
    /\ config = <<>>
    /\ manager = NewManager
    /\ router = <<>>
    /\ req = IdleRequest
    /\ peer = IdleRequest
    /\ served = 0
    /\ caller = NoCall

\* lifespan, lines 38-49: load the configuration or sys.exit(1)
LoadConfig ==
    /\ phase = "start"
    /\ LET loaded == LoadFromYaml(document)
       IN  IF ~loaded.raised
           THEN phase' = "loaded" /\ config' = loaded.routes
           ELSE phase' = "exited" /\ config' = config
    /\ UNCHANGED <<api_key, document, manager, router, req, peer, served, caller>>

\* lifespan going on to build the routes without having connected
Connect_Skipped ==
    /\ phase = "loaded"
    /\ phase' = "connected"
    /\ UNCHANGED <<api_key, document, config, manager, router, req, peer, served, caller>>

\* lifespan, lines 51-57, with MQTTManager.connect: the client is created and
\* entered, or entering it raises and the process exits
Connect ==
    /\ phase = "loaded"
    /\ \E outcome \in ConnectOutcomes :
          /\ manager' = ManagerConnect(manager, outcome)
          /\ phase' = IF ConnectRaises(outcome) = NoExc THEN "connected" ELSE "exited"
    /\ UNCHANGED <<api_key, document, config, router, req, peer, served, caller>>

\* lifespan, lines 59-62, with RouteBuilder.build_routes: an exception of
\* _create_route leaves build_routes and lifespan, the routes built so far stay
\* on the builder's router, which is never included in the application
BuildRoutes ==
    /\ phase = "connected"
    /\ LET built == BuildRoutesLoop(config, 1, <<>>)
       IN  /\ router' = built.router
           /\ phase' = IF built.raised THEN "crashed" ELSE "serving"
    /\ UNCHANGED <<api_key, document, config, manager, req, peer, served, caller>>

\* lifespan, lines 73-76, with MQTTManager.disconnect
Shutdown ==
    /\ phase = "serving"
    /\ req.pc = "idle" /\ peer.pc = "idle"
    /\ phase' = "stopped"
    /\ manager' = ManagerDisconnect(manager)
    /\ UNCHANGED <<api_key, document, config, router, req, peer, served, caller>>

\* a request with one of the headers arrives and is matched to a registered
\* route
ReceiveWith(headers, limit) ==
    /\ phase = "serving"
    /\ req.pc = "idle"
    /\ served < limit
    /\ \E r \in {i \in 1..Len(router) : Match(router, router[i].method, router[i].path) = i},
          h \in headers :
         \E raw \in RawChoices(router[r]), body \in BodyChoices(router[r]) :
            req' = [IdleRequest EXCEPT !.pc = "received", !.route = r, !.header = h,
                                       !.raw = raw, !.body = body]
    /\ served' = served + 1
    /\ UNCHANGED <<phase, api_key, document, config, manager, router, peer, caller>>

Receive == ReceiveWith(Headers, MaxRequests)

\* the request ends with the response of an exception, after a second
\* publish call when the first one raised
Fails_Retry(r, frame, e) ==
    [r EXCEPT !.pc = "done", !.frame = [frame EXCEPT !.exc = e],
              !.calls = IF @ # <<>> THEN Append(@, @[1]) ELSE @,
              !.response = ErrorResponse(HandleException(e))]

\* the request ends with the response of an exception
Fails(r, frame, e) ==
    [r EXCEPT !.pc = "done", !.frame = [frame EXCEPT !.exc = e],
              !.response = ErrorResponse(HandleException(e))]

\* Depends(verify_api_key): solved before anything else of the request
Authenticate ==
    /\ req.pc = "received"
    /\ LET v == VerifyApiKey(ApiKeyHeader(req.header), api_key)
       IN  req' = IF v.exc # NoExc
                  THEN [req EXCEPT !.pc = "done", !.response = ErrorResponse(v.exc)]
                  ELSE [req EXCEPT !.pc = "authenticated", !.auth = v.ret]
    /\ UNCHANGED <<phase, api_key, document, config, manager, router, peer, served, caller>>

\* the endpoint with all_params kept between calls: the keys the other
\* request left behind are still there when this one resolves
ToPublish_StaleParams(r, frame) ==
    LET left == peer.frame.all
        merged == [k \in DOMAIN frame.all \cup DOMAIN left |->
                     IF k \in DOMAIN frame.all THEN frame.all[k] ELSE left[k]]
        again == IF frame.stage \in {"validate", "topic", "render", "json", "publish"}
                 THEN ResolveAndRender(router[r.route], merged) ELSE frame
    IN  IF again.exc # NoExc THEN Fails(r, again, again.exc)
        ELSE IF PublishGuard(manager) # NoExc
             THEN Fails(r, again, PublishGuard(manager))
        ELSE [r EXCEPT !.pc = "publishing", !.frame = again,
                       !.calls = Append(@, PublishCall(again.topic, again.payload,
                                           router[r.route].qos, router[r.route].retain))]

\* lines 120-126 with MQTTManager.publish up to its await: the request after
\* the endpoint has run to the publish call or to an exception
ToPublish(r, frame) ==
    IF frame.exc # NoExc THEN Fails(r, frame, frame.exc)
    ELSE IF PublishGuard(manager) # NoExc
         THEN Fails(r, frame, PublishGuard(manager))
    ELSE [r EXCEPT !.pc = "publishing", !.frame = frame,
                   !.calls = Append(@, PublishCall(frame.topic, frame.payload,
                                       router[r.route].qos, router[r.route].retain))]

\* the endpoint called, keeping the values it was called with as the
\* defaults of the route's descriptor
Enter_StoresValues ==
    /\ req.pc = "authenticated"
    /\ LET cfg == router[req.route]
           errors == SignatureErrors(cfg.parameters, req.raw)
           kwargs == Kwargs(cfg, req.raw)
           called == [req EXCEPT !.entered = TRUE, !.kwargs = kwargs]
           kept == [i \in 1..Len(cfg.parameters) |->
                      IF cfg.parameters[i].name \in DOMAIN kwargs
                      THEN [cfg.parameters[i] EXCEPT !.default = kwargs[cfg.parameters[i].name]]
                      ELSE cfg.parameters[i]]
       IN  /\ req' = IF errors # <<>>
                     THEN [req EXCEPT !.pc = "done",
                                      !.response = ErrorResponse(HTTPException(422, errors))]
                     ELSE IF ParamsAt(cfg, "body") # <<>>
                          THEN [called EXCEPT !.pc = "reading_body"]
                     ELSE ToPublish(called, EndpointToPublish(cfg, kwargs, req.body))
           /\ router' = IF errors # <<>> THEN router
                        ELSE [router EXCEPT ![req.route].parameters = kept]
    /\ UNCHANGED <<phase, api_key, document, config, manager, peer, served, caller>>

\* the declared parameters are validated and the endpoint is called: it runs
\* to `await request.json()` when the route has body parameters, and to the
\* publish call otherwise
Enter ==
    /\ req.pc = "authenticated"
    /\ LET cfg == router[req.route]
           errors == SignatureErrors(cfg.parameters, req.raw)
           kwargs == Kwargs(cfg, req.raw)
           called == [req EXCEPT !.entered = TRUE, !.kwargs = kwargs]
       IN  req' = IF errors # <<>>
                  THEN [req EXCEPT !.pc = "done",
                                   !.response = ErrorResponse(HTTPException(422, errors))]
                  ELSE IF ParamsAt(cfg, "body") # <<>>
                       THEN [called EXCEPT !.pc = "reading_body"]
                  ELSE ToPublish(called, EndpointToPublish(cfg, kwargs, req.body))
    /\ UNCHANGED <<phase, api_key, document, config, manager, router, peer, served, caller>>

\* request.json() returns or raises, and the endpoint runs on to the publish call
ReadBody ==
    /\ req.pc = "reading_body"
    /\ req' = ToPublish([req EXCEPT !.bodyRead = TRUE],
                        EndpointToPublish(router[req.route], req.kwargs, req.body))
    /\ UNCHANGED <<phase, api_key, document, config, manager, router, peer, served, caller>>

\* self.client.publish returns: lines 128-133
PublishReturns ==
    /\ req.pc = "publishing"
    /\ req' = [req EXCEPT !.pc = "done", !.acked = TRUE,
                          !.response = Published(req.frame)]
    /\ UNCHANGED <<phase, api_key, document, config, manager, router, peer, served, caller>>

\* self.client.publish raises (the broker rejects, the connection is lost):
\* mqtt_client.py lines 48-50 re-raise, route_builder.py lines 144-146 answer
PublishRaises ==
    /\ req.pc = "publishing"
    /\ LET e == PublishFailure(Raise("MqttError", 0, <<>>))
       IN  req' = IF e = NoExc
                  THEN [req EXCEPT !.pc = "done", !.raised = TRUE,
                                   !.response = Published(req.frame)]
                  ELSE [Fails(req, req.frame, e) EXCEPT !.raised = TRUE]
    /\ UNCHANGED <<phase, api_key, document, config, manager, router, peer, served, caller>>

\* the response has been sent, or the task has been cancelled, and the
\* request is over
Complete ==
    /\ req.pc \in {"done", "cancelled"}
    /\ req' = IdleRequest
    /\ UNCHANGED <<phase, api_key, document, config, manager, router, peer, served, caller>>

Next ==
    \/ LoadConfig
    \/ Connect
    \/ BuildRoutes
    \/ Shutdown
    \/ Receive
    \/ Authenticate
    \/ Enter
    \/ ReadBody
    \/ PublishReturns
    \/ PublishRaises
    \/ Complete

Spec == Init /\ [][Next]_vars

-----------------------------------------------------------------------------
(* Two requests in flight on the one event loop *)

\* the requests the concurrent service accepts
MaxRequestsConc == 2

\* the document and the key the concurrent service is started on: no secret,
\* and routes with a required body parameter, with optional ones only and
\* with none
DocConcurrent == << RouteDevice, RouteNotify, RouteSimple >>

InitConc ==
    /\ phase = "start"
    /\ api_key = VNull
    /\ document = DocConcurrent
    /\ config = <<>>
    /\ manager = NewManager
    /\ router = <<>>
    /\ req = IdleRequest
    /\ peer = IdleRequest
    /\ served = 0
    /\ caller = NoCall

ReceiveOpen == ReceiveWith({VNull}, MaxRequestsConc)

\* the running coroutine is at an await (or between requests) and the event
\* loop resumes the other one, which finds the kwargs of the request that
\* ran last
Switch_SharedParams ==
    /\ req # peer
    /\ req' = [peer EXCEPT !.kwargs = IF req.entered /\ peer.entered THEN req.kwargs ELSE @]
    /\ peer' = req
    /\ UNCHANGED <<phase, api_key, document, config, manager, router, served, caller>>

\* the running coroutine is at an await (line 56, line 121) or between
\* requests, and the event loop resumes the other one: each keeps its own
\* frame (kwargs and all_params are locals of the call)
Switch ==
    /\ req # peer
    /\ req' = peer
    /\ peer' = req
    /\ UNCHANGED <<phase, api_key, document, config, manager, router, served, caller>>

\* the client goes away while its request waits: the task is cancelled
\* (CancelledError, a BaseException no except clause of the endpoint
\* catches), or, at the body read, request.json() raises ClientDisconnect
\* and the endpoint runs on from there
Cancel ==
    /\ req.pc \in {"authenticated", "reading_body", "publishing"}
    /\ \/ req' = [req EXCEPT !.pc = "cancelled", !.cancelledAt = req.pc]
       \/ /\ req.pc = "reading_body"
          /\ req' = ToPublish([req EXCEPT !.bodyRead = TRUE, !.cancelledAt = req.pc],
                              EndpointAfterRead(router[req.route], req.kwargs, Disconnected))
    /\ UNCHANGED <<phase, api_key, document, config, manager, router, peer, served, caller>>

NextConc ==
    \/ LoadConfig
    \/ Connect
    \/ BuildRoutes
    \/ Shutdown
    \/ ReceiveOpen
    \/ Authenticate
    \/ Enter
    \/ ReadBody
    \/ PublishReturns
    \/ PublishRaises
    \/ Complete
    \/ Switch
    \/ Cancel

SpecConc == InitConc /\ [][NextConc]_vars

-----------------------------------------------------------------------------
(* The manager called directly, as src/tests/test_mqtt.py calls it *)

\* the method calls made on the manager
MaxCalls == 4

\* MQTTManager(mqtt_config) alone: no lifespan, no routes
InitManager ==
    /\ phase = "direct"
    /\ api_key = VNull
    /\ document = <<>>
    /\ config = <<>>
    /\ manager = NewManager
    /\ router = <<>>
    /\ req = IdleRequest
    /\ peer = IdleRequest
    /\ served = 0
    /\ caller = NoCall

\* await manager.connect()
CallConnect ==
    /\ phase = "direct" /\ served < MaxCalls
    /\ \E outcome \in ConnectOutcomes :
          /\ manager' = ManagerConnect(manager, outcome)
          /\ caller' = [NoCall EXCEPT !.op = "connect", !.exc = ConnectRaises(outcome)]
    /\ served' = served + 1
    /\ UNCHANGED <<phase, api_key, document, config, router, req, peer>>

\* await manager.disconnect()
CallDisconnect ==
    /\ phase = "direct" /\ served < MaxCalls
    /\ manager' = ManagerDisconnect(manager)
    /\ caller' = [NoCall EXCEPT !.op = "disconnect"]
    /\ served' = served + 1
    /\ UNCHANGED <<phase, api_key, document, config, router, req, peer>>

\* await manager.publish("test/topic", "test payload", qos=qos), lines 36-50:
\* the guard raises, or the call goes to self.client.publish, which returns
\* or raises
CallPublish ==
    /\ phase = "direct" /\ served < MaxCalls
    /\ \E qos \in {0, 1}, ok \in BOOLEAN :
          LET call == PublishCall(<<"test/topic">>, <<"test payload">>, qos, FALSE)
          IN  caller' = IF PublishGuard(manager) # NoExc
                        THEN [NoCall EXCEPT !.op = "publish", !.exc = PublishGuard(manager)]
                        ELSE [NoCall EXCEPT !.op = "publish", !.calls = <<call>>,
                                !.exc = IF ok THEN NoExc
                                        ELSE PublishFailure(Raise("MqttError", 0, <<>>))]
    /\ served' = served + 1
    /\ UNCHANGED <<phase, api_key, document, config, manager, router, req, peer>>

\* manager.is_connected
CallIsConnected ==
    /\ phase = "direct" /\ served < MaxCalls
    /\ caller' = [NoCall EXCEPT !.op = "is_connected", !.result = VBool(IsConnected(manager))]
    /\ served' = served + 1
    /\ UNCHANGED <<phase, api_key, document, config, manager, router, req, peer>>

NextManager ==
    \/ CallConnect
    \/ CallDisconnect
    \/ CallPublish
    \/ CallIsConnected

SpecManager == InitManager /\ [][NextManager]_vars

-----------------------------------------------------------------------------
(* The request in flight, as the claims speak of it *)

\* the route the request was matched to
Cfg == router[req.route]
\* the response has been produced
Handled == req.pc = "done"
\* the authentication gate has run
PastGate == req.pc \notin {"idle", "received"}
\* API_KEY holds a key
SecretConfigured == Truthy(api_key)
\* the endpoint's parameter set has been through the defaults (lines 68-71)
Resolved == req.frame.stage \in {"validate", "topic", "render", "json", "publish"}
\* the endpoint has started to render (line 102 on)
Rendering == req.frame.stage \in {"topic", "render", "json", "publish"}
\* the response detail names the word
Names(detail, word) == \E j \in 1..Len(detail) : detail[j] = word

\* the request holds no value for the parameter: no such query key, no such
\* key in the JSON object of the body
LacksKey(p) ==
    CASE p.location = "query" -> req.raw[p.name] = Absent
      [] p.location = "body" ->
           LET doc == JsonLoads(req.body)
           IN  doc.ok /\ doc.kind = "object" /\ ~HasKey(doc.obj, p.name)
      [] OTHER -> FALSE

\* the same, a body that is no JSON document holding no value either
Omits(p) ==
    LacksKey(p) \/ (p.location = "body" /\ ~JsonLoads(req.body).ok)

\* the value breaks the parameter's enum or numeric bounds
BreaksConstraint(p, value) ==
    \/ p.enumSet /\ \A i \in 1..Len(p.enum) : ~PyEq(value, VStr(p.enum[i]))
    \/ /\ p.type \in {"integer", "float"}
       /\ value.t = "int"
       /\ (p.minSet /\ value.n < p.min) \/ (p.maxSet /\ value.n > p.max)

-----------------------------------------------------------------------------
(* Claims *)

\* C1: a request that got past the gate and lacks a required parameter (query,
\* path or body) is answered with a client error that names a missing
\* parameter, no default is substituted for it, and the endpoint neither
\* renders nor publishes.  Stated with any 4xx status accepted (the generated
\* signature answers 422 for a missing query parameter where the claim says
\* 400); the code violates it even so.
C1_RequiredMissingRejected ==
    LET ps == Cfg.parameters
        missing == {i \in 1..Len(ps) : ps[i].required /\ LacksKey(ps[i])}
    IN  (Handled /\ req.response.status # 401 /\ missing # {}) =>
           /\ req.response.status \in 400..499
           /\ \E i \in missing : Names(req.response.detail, ps[i].name)
           /\ \A i \in missing : ps[i].name \notin DOMAIN req.frame.all
           /\ ~Rendering
           /\ req.calls = <<>>

\* C2: in every parameter set that reaches topic/payload rendering, an optional
\* parameter with no default that the request omitted is absent from the set,
\* never present with a null value.
C2_OmittedOptionalAbsent ==
    Rendering =>
       \A i \in 1..Len(Cfg.parameters) :
          LET p == Cfg.parameters[i]
          IN  (~p.required /\ p.default = VNull /\ Omits(p)) =>
                 p.name \notin DOMAIN req.frame.all

\* C3: a request whose populated parameters include a value outside its enum,
\* or an integer/float value below min or above max, is answered 422 and
\* publish is never called for it.
C3_ConstraintBreachIs422 ==
    (Handled /\ Resolved /\
       \E i \in 1..Len(Cfg.parameters) :
          /\ Cfg.parameters[i].name \in DOMAIN req.frame.all
          /\ BreaksConstraint(Cfg.parameters[i], req.frame.all[Cfg.parameters[i].name]))
    => (req.response.status = 422 /\ req.calls = <<>>)

\* C4: a topic placeholder that names a parameter missing from the resolved
\* set is answered with a server-class error (5xx), never a client error, and
\* nothing is published.
C4_TopicPlaceholderIsServerError ==
    (Handled /\ req.frame.stage = "topic" /\ req.frame.exc.exc = "KeyError") =>
       (req.response.status \in 500..599 /\ req.calls = <<>>)

\* C5: with a secret configured, a request that carries no credential is
\* answered 401 before any resolver step: the endpoint is never called, the
\* body never read, nothing resolved, rendered or published, whatever else is
\* wrong with the request.
C5_NoCredentialRejectedFirst ==
    (SecretConfigured /\ req.header = VNull /\ PastGate) =>
       /\ Handled
       /\ req.response.status = 401
       /\ ~req.entered /\ ~req.bodyRead
       /\ req.kwargs = EmptyParams /\ req.frame = NoFrame
       /\ req.calls = <<>>

\* C5 witness: a request with no credential that also lacks a required query
\* parameter has been answered 401
C5_Witness ==
    /\ Handled /\ SecretConfigured /\ req.header = VNull
    /\ SignatureErrors(Cfg.parameters, req.raw) # <<>>
    /\ req.response.status = 401

\* C6 as claimed: with a secret configured, an absent credential is answered
\* 401 'missing', a credential that is present and differs from the secret is
\* answered 401 'invalid', an equal one passes, and no rejected request
\* publishes.
C6_PresentMismatchIsInvalid ==
    (SecretConfigured /\ PastGate) =>
       /\ (req.header = VNull) =>
             (req.response.status = 401 /\ req.response.detail = <<"Missing API key">>)
       /\ (req.header # VNull /\ req.header # api_key) =>
             (req.response.status = 401 /\ req.response.detail = <<"Invalid API key">>)
       /\ (req.header = api_key) => (req.response.status # 401 /\ req.auth = api_key)
       /\ (req.response.status = 401) => (req.calls = <<>> /\ ~req.entered)

\* C6 amended: an absent or empty credential is answered 401 'missing', a
\* non-empty credential that differs from the secret 401 'invalid', an equal
\* one passes, and no rejected request publishes.
C6_GateVerdicts ==
    (SecretConfigured /\ PastGate) =>
       /\ (~Truthy(req.header)) =>
             (req.response.status = 401 /\ req.response.detail = <<"Missing API key">>)
       /\ (Truthy(req.header) /\ req.header # api_key) =>
             (req.response.status = 401 /\ req.response.detail = <<"Invalid API key">>)
       /\ (req.header = api_key) => (req.response.status # 401 /\ req.auth = api_key)
       /\ (req.response.status = 401) => (req.calls = <<>> /\ ~req.entered)

\* C6 witness: a credential that differs from the secret has been rejected as invalid
C6_Witness ==
    /\ Handled /\ SecretConfigured /\ req.header = W("invalid-key")
    /\ req.response.status = 401 /\ req.response.detail = <<"Invalid API key">>

\* C7: with no secret configured the gate lets every request through, whatever
\* its credential header: verify_api_key returns "disabled" and no request is
\* answered 401.
C7_NoSecretNoGate ==
    (~SecretConfigured /\ PastGate) =>
       (req.auth = W("disabled") /\ req.response.status # 401)

\* C7 witness: with no secret, a request carrying a wrong key has published
C7_Witness ==
    /\ ~SecretConfigured /\ Handled /\ req.header = W("invalid-key")
    /\ req.response.result = "published"

\* C8: when payload rendering raises or the rendered payload is not JSON, the
\* request is answered 5xx (so neither 400 nor 422) and publish is not called;
\* nor is it called when topic rendering raises.
C8_RenderFailureIsServerError ==
    /\ (Handled /\ req.frame.stage \in {"render", "json"}) =>
          (req.response.status \in 500..599 /\ req.calls = <<>>)
    /\ (req.frame.stage = "topic") => (req.calls = <<>>)

\* C8 witness: a rendered payload that is not JSON has been answered 500
C8_Witness ==
    /\ Handled /\ req.frame.stage = "json"
    /\ req.frame.exc.exc = "JSONDecodeError" /\ req.response.status = 500

\* C9: a request whose publish failed (no client, or self.client.publish
\* raised) is answered 5xx and never with the result "published".
C9_PublishFailureIsServerError ==
    (req.raised \/ (Handled /\ req.frame.exc.exc = "RuntimeError")) =>
       /\ Handled
       /\ req.response.status \in 500..599
       /\ req.response.result # "published"

\* C9 witness: self.client.publish was called and raised
C9_Witness ==
    /\ Handled /\ req.raised /\ Len(req.calls) = 1 /\ req.response.status = 500

\* C10: the success result is returned only after the one publish call has
\* returned, with status "published", the topic passed to publish and the JSON
\* parse of the payload text passed to publish.
C10_SuccessResultMatchesPublish ==
    (req.response.result = "published") =>
       /\ req.response.status = 200
       /\ req.acked /\ ~req.raised
       /\ Len(req.calls) = 1
       /\ req.response.topic = req.calls[1].topic
       /\ LET doc == JsonLoads(req.calls[1].payload)
          IN  /\ doc.ok
              /\ req.response.payload =
                    [kind |-> doc.kind, obj |-> doc.obj, val |-> doc.val]

\* C10 witness: a published result whose payload holds a boolean and whose
\* topic was rendered from path parameters
C10_Witness ==
    /\ Handled /\ req.response.result = "published"
    /\ \E i \in 1..Len(req.response.payload.obj) :
          req.response.payload.obj[i][2] = VBool(TRUE)
    /\ Len(req.response.topic) > 1

\* C11: numeric bounds are inclusive.  For an integer/float parameter that is
\* the first of its route to carry a constraint and is populated with a
\* number: a value within [min, max], the bounds included, is never rejected
\* by validation; a value below min or above max (one unit beyond included)
\* stops the request in validation, is answered 422 and is not published.
C11_BoundsInclusive ==
    Resolved =>
       \A i \in 1..Len(Cfg.parameters) :
          LET p == Cfg.parameters[i]
              v == req.frame.all[p.name]
              first == \A j \in 1..(i - 1) :
                          /\ ~Cfg.parameters[j].enumSet
                          /\ ~Cfg.parameters[j].minSet /\ ~Cfg.parameters[j].maxSet
              inside == (p.minSet => v.n >= p.min) /\ (p.maxSet => v.n <= p.max)
          IN  (/\ p.type \in {"integer", "float"} /\ (p.minSet \/ p.maxSet)
               /\ ~p.enumSet /\ first
               /\ p.name \in DOMAIN req.frame.all /\ v.t = "int") =>
                 /\ inside =>
                       ~(req.frame.stage = "validate" /\ Names(req.frame.exc.detail, p.name))
                 /\ ~inside =>
                       /\ req.frame.stage = "validate" /\ req.calls = <<>>
                       /\ Handled /\ req.response.status = 422
                       /\ Names(req.response.detail, p.name)

\* C11 witness: a body value equal to max has been published, on a route
\* whose other bound is 0
C11_Witness ==
    /\ Handled /\ req.response.result = "published"
    /\ \E i \in 1..Len(Cfg.parameters) :
          LET p == Cfg.parameters[i]
          IN  /\ p.type = "float" /\ p.maxSet /\ p.name \in DOMAIN req.frame.all
              /\ req.frame.all[p.name] = VInt(p.max)

\* C12: when the request body does not parse as JSON, a route with a required
\* body parameter answers 400 "Invalid JSON in request body" and publishes
\* nothing; a route with no required body parameter goes on with an empty
\* body: each body parameter takes its default or stays out of the set.
C12_UnparsableBody ==
    LET body_params == ParamsAt(Cfg, "body")
    IN  (Handled /\ req.bodyRead /\ RequestJson(req.body).exc # NoExc) =>
           IF \E i \in 1..Len(body_params) : body_params[i].required
           THEN /\ req.response.status = 400
                /\ req.response.detail = <<"Invalid JSON in request body">>
                /\ req.calls = <<>>
           ELSE /\ Resolved
                /\ \A i \in 1..Len(body_params) :
                      LET p == body_params[i]
                      IN  IF p.default # VNull
                          THEN /\ p.name \in DOMAIN req.frame.all
                               /\ req.frame.all[p.name] = p.default
                          ELSE p.name \notin DOMAIN req.frame.all

\* C13: in every parameter set that has been through the defaults, an optional
\* query or body parameter that has a default and that the request did not
\* supply holds exactly that default, and a parameter the request supplied
\* holds the supplied value, not the default.
C13_DefaultsPopulated ==
    Resolved =>
       \A i \in 1..Len(Cfg.parameters) :
          LET p == Cfg.parameters[i]
              doc == JsonLoads(req.body)
          IN  /\ (p.location # "path" /\ ~p.required /\ p.default # VNull /\ Omits(p)) =>
                    /\ p.name \in DOMAIN req.frame.all
                    /\ req.frame.all[p.name] = p.default
              /\ (p.location = "query" /\ req.raw[p.name] # Absent) =>
                    req.frame.all[p.name] = Convert(p.type, req.raw[p.name])
              /\ (p.location = "body" /\ doc.ok /\ doc.kind = "object"
                                      /\ HasKey(doc.obj, p.name)) =>
                    req.frame.all[p.name] = Lookup(doc.obj, p.name)

\* C13 witness: a request that supplied neither the optional query parameter
\* nor the optional body parameter has been published with both defaults
C13_Witness ==
    /\ Handled /\ req.response.result = "published"
    /\ \E i, j \in 1..Len(Cfg.parameters) :
          LET p == Cfg.parameters[i]
              q == Cfg.parameters[j]
          IN  /\ p.location = "query" /\ q.location = "body"
              /\ ~p.required /\ ~q.required /\ p.default # VNull /\ q.default # VNull
              /\ LacksKey(p) /\ LacksKey(q)
              /\ req.frame.all[p.name] = p.default /\ req.frame.all[q.name] = q.default

\* C14: publish is called at most once per request and never retried: a
\* request has at most one publish call, a call is only ever added to a
\* request that has none, has no response and has seen no failure, and a
\* request that has been answered (with an error or not) only ends.
C14_PublishAtMostOnce ==
    /\ [](Len(req.calls) <= 1 /\ (req.raised => Handled))
    /\ [][(req'.calls # req.calls /\ req'.calls # <<>>) =>
             (/\ req.calls = <<>> /\ req.response = NoResponse /\ ~req.raised
              /\ req.pc \in {"authenticated", "reading_body"})]_vars
    /\ [][Handled => (req' = IdleRequest)]_vars

\* C14 witness: the one publish call of a request raised and the request has
\* been answered 500 with that one call on record
C14_Witness ==
    /\ Handled /\ req.raised /\ req.response.status = 500
    /\ req.calls = << PublishCall(req.frame.topic, req.frame.payload, Cfg.qos, Cfg.retain) >>

\* the document's route i breaks the schema of config.py
BreaksSchema(r) ==
    \/ r.method \notin {"GET", "POST", "PUT", "DELETE"}
    \/ r.qos \notin {0, 1, 2}
    \/ \E i \in 1..Len(r.parameters) :
          r.parameters[i].type \notin {"string", "integer", "float", "boolean"}
\* build_routes has run
Built == phase \in {"serving", "stopped", "crashed"}
\* the route is on the builder's router
Registered(r) == \E i \in 1..Len(router) : router[i] = r

\* C15: once build_routes has run, every route of the configuration whose own
\* registration does not fail is registered, whether or not a route before it
\* failed to register.
C15_LaterRoutesRegistered ==
    Built =>
       \A i \in 1..Len(config) :
          ~CreateRouteRaises(config[i]) => Registered(config[i])

\* two routes of the document have the same (method, path)
HasDuplicate(doc) ==
    \E i, j \in 1..Len(doc) :
       i # j /\ doc[i].method = doc[j].method /\ doc[i].path = doc[j].path

\* C16: a configuration with two routes of the same (method, path) is fatal:
\* startup does not get to serving, no route is registered and no request is
\* taken.
C16_DuplicateIsFatal ==
    (HasDuplicate(document) /\ phase # "start") =>
       /\ phase \notin {"serving", "stopped"}
       /\ router = <<>>
       /\ req = IdleRequest

\* the descriptor, in the loaded configuration, of the route the request was
\* matched to
Descriptor == config[Match(config, Cfg.method, Cfg.path)]

\* C17: every publish call of a request matched to route R carries R's topic
\* template rendered from the request's own parameter set, and R's qos and
\* retain.
C17_HandlerBoundToOwnRoute ==
    \A k \in 1..Len(req.calls) :
       /\ req.calls[k].qos = Descriptor.qos
       /\ req.calls[k].retain = Descriptor.retain
       /\ LET topic == FormatTopic(Descriptor.mqtt_topic, req.frame.all)
          IN  topic.ok /\ req.calls[k].topic = topic.out
       /\ LET rendered == RenderNodes(Descriptor.payload_template, req.frame.all)
          IN  rendered.ok /\ req.calls[k].payload = FixBooleans(rendered.out)

\* C17 witness: a request to a route that is neither first nor last in the
\* configuration has been published retained, on a topic rendered from its
\* path parameters
C17_Witness ==
    /\ Handled /\ req.response.result = "published"
    /\ req.route \notin {1, Len(router)}
    /\ Cfg.retain /\ req.calls[1].retain
    /\ Len(req.calls[1].topic) > 1

\* C19: a document in which some route breaks the schema (method, qos, a
\* parameter's type) fails the whole load: the process exits with no Config,
\* no route registered and no request taken; and the loaded configuration is
\* never anything but the whole document.
C19_LoadAllOrNothing ==
    /\ config \in {<<>>, document}
    /\ ((\E i \in 1..Len(document) : BreaksSchema(document[i])) /\ phase # "start") =>
          /\ phase = "exited"
          /\ config = <<>> /\ router = <<>>
          /\ manager = NewManager /\ req = IdleRequest

\* C19 witness: the load of a document whose first route is valid and whose
\* second has qos 3 has failed
C19_Witness ==
    /\ phase = "exited" /\ config = <<>>
    /\ Len(document) > 1 /\ ~BreaksSchema(document[1])
    /\ document[2].qos = 3

\* the publish call the endpoint makes for the request's own route, path,
\* query and body
OwnPublish(r) ==
    LET cfg == router[r.route]
        frame == EndpointToPublish(cfg, Kwargs(cfg, r.raw), r.body)
    IN  PublishCall(frame.topic, frame.payload, cfg.qos, cfg.retain)

\* the request has at most one publish call, that call is its own, and its
\* success result stands for exactly that call, returned
PublishesItsOwn(r) ==
    /\ Len(r.calls) <= 1
    /\ (r.calls # <<>>) => (r.calls[1] = OwnPublish(r))
    /\ (r.response.result = "published") =>
          /\ r.acked /\ Len(r.calls) = 1
          /\ r.response.topic = OwnPublish(r).topic
          /\ LET doc == JsonLoads(OwnPublish(r).payload)
             IN  r.response.payload = [kind |-> doc.kind, obj |-> doc.obj, val |-> doc.val]

\* C18: with two requests in flight that interleave at the body read and at
\* the publish call, each request publishes at most once, what it publishes
\* is built from its own parameters, and each successful request has exactly
\* one publish call, its own.
C18_ConcurrentRequestsIsolated ==
    PublishesItsOwn(req) /\ PublishesItsOwn(peer)

\* C18 witness: a request has been published while another one, entered
\* before the first one's publish returned and bound for another topic, waits
\* for its own publish call to return
C18_Witness ==
    /\ req.response.result = "published"
    /\ peer.pc = "publishing" /\ peer.bodyRead
    /\ peer.calls[1].topic # req.calls[1].topic
    /\ peer.calls[1].payload # req.calls[1].payload

\* the request was cancelled before its publish call was issued
CancelledBeforePublish(r) == r.cancelledAt \in {"authenticated", "reading_body"}

\* C20: a request cancelled at a suspension point before the publish call has
\* no publish call, then or later, and is not answered "published"; the
\* cancellation changes nothing but that request: the other request in
\* flight, the MQTT manager, the router and the configuration stay as they
\* are.
C20_CancelledNeverPublishes ==
    /\ [](\A r \in {req, peer} :
            CancelledBeforePublish(r) =>
               (r.calls = <<>> /\ r.response.result # "published"
                /\ r.pc \in {"cancelled", "done"}))
    /\ [][(Cardinality({r \in {req', peer'} : r.cancelledAt # ""})
              > Cardinality({r \in {req, peer} : r.cancelledAt # ""})) =>
             UNCHANGED <<phase, api_key, document, config, manager, router, peer, served, caller>>]_vars

\* C20 witness: the client of a request to a route with no required body
\* parameter went away during the body read, the request ended without a
\* publish call, and the other request in flight has its publish call out
C20_Witness ==
    /\ req.cancelledAt = "reading_body" /\ Handled /\ req.calls = <<>>
    /\ \A i \in 1..Len(Cfg.parameters) : ~Cfg.parameters[i].required
    /\ peer.pc = "publishing"

\* the names the route's templates hold: the replacement fields of
\* mqtt_topic and the variables of payload_template
RECURSIVE NodeNames(_)
NodeNames(nodes) ==
    IF nodes = <<>> THEN {}
    ELSE (IF nodes[1].name # "" THEN {nodes[1].name} ELSE {})
         \cup NodeNames(nodes[1].body) \cup NodeNames(Tail(nodes))
TemplateNames(route) ==
    {route.mqtt_topic[i].text : i \in {j \in 1..Len(route.mqtt_topic) : route.mqtt_topic[j].ph}}
    \cup NodeNames(route.payload_template)

\* C21: the response to a request that failed in topic rendering, payload
\* rendering or the JSON check of the rendered payload is opaque: its detail
\* holds no name taken from the route's templates, so routes that differ in
\* template internals only answer alike.
C21_TemplateErrorOpaque ==
    (Handled /\ req.frame.stage \in {"topic", "render", "json"}) =>
       \A n \in TemplateNames(Cfg) : ~Names(req.response.detail, n)

\* C22: a payload that has been rendered holds no boolean in Python's
\* capitalised form: every boolean parameter value stands in it as true or
\* false, whatever precedes the substitution.
C22_BooleansLowercase ==
    (req.frame.stage \in {"json", "publish"}) =>
       \A i \in 1..Len(req.frame.payload) : req.frame.payload[i] \notin {"True", "False"}

\* what resolving the request's own route, path, query and body yields
OwnResolution(r) ==
    EndpointToPublish(router[r.route], Kwargs(router[r.route], r.raw), r.body)
\* the request's parameter set has been through the defaults
ResolvedIn(r) == r.frame.stage \in {"validate", "topic", "render", "json", "publish"}
\* the resolved set and the validation outcome of two resolutions are the same
SameResolution(f, g) ==
    /\ f.all = g.all
    /\ (f.stage = "validate") = (g.stage = "validate")
    /\ (f.stage = "validate") => (f.exc = g.exc)

\* C23: resolution is deterministic.  The resolved parameter set and the
\* validation outcome of a request are those its own route, path, query and
\* body yield, whatever other request was handled before or is in flight;
\* so two requests in flight with the same route, path, query and body have
\* the same resolved set and the same validation outcome.
C23_ResolutionDeterministic ==
    /\ \A r \in {req, peer} : ResolvedIn(r) => SameResolution(r.frame, OwnResolution(r))
    /\ (/\ ResolvedIn(req) /\ ResolvedIn(peer)
        /\ req.route = peer.route /\ req.raw = peer.raw /\ req.body = peer.body) =>
          SameResolution(req.frame, peer.frame)

\* C23 witness: two requests with the same route, query and body are in
\* flight, one answered and one with its publish call out, both resolved to
\* the same set with a default in it
C23_Witness ==
    /\ Handled /\ peer.pc = "publishing"
    /\ req.route = peer.route /\ req.raw = peer.raw /\ req.body = peer.body
    /\ req.frame.all = peer.frame.all
    /\ \E i \in 1..Len(Cfg.parameters) :
          /\ Cfg.parameters[i].default # VNull
          /\ req.frame.all[Cfg.parameters[i].name] = Cfg.parameters[i].default

\* C24: MQTTManager.publish called while the manager holds no client raises
\* RuntimeError 'MQTT client not connected', makes no publish call on a
\* broker client, and leaves the manager as it was: client None, is_connected
\* False.
C24_PublishWithoutClient ==
    /\ []((caller.op = "publish" /\ manager.client = "None") =>
            /\ caller.exc = Raise("RuntimeError", 0, <<"MQTT client not connected">>)
            /\ caller.calls = <<>>
            /\ ~IsConnected(manager))
    /\ [][(manager.client = "None" /\ caller'.op = "publish" /\ served' # served) =>
            manager' = manager]_vars

\* C24 witness: publish was called on a manager that never connected and
\* raised
C24_Witness ==
    /\ caller.op = "publish"
    /\ manager = NewManager
    /\ caller.exc.exc = "RuntimeError"

\* the calls of the kind made on the aiomqtt side so far
EventsOf(op) == {i \in 1..Len(manager.log) : manager.log[i].op = op}
\* the keyword arguments test_mqtt_manager_connect expects Client to get
ExpectedKeywords ==
    {"hostname", "port", "username", "password", "identifier", "keepalive"}

\* C25: connect creates exactly one broker client from the configured
\* settings (hostname, port, username, password, identifier, keepalive) and
\* enters it exactly once; a following disconnect exits that same client
\* exactly once; disconnect on a manager that never connected does nothing.
C25_ConnectDisconnectOnce ==
    /\ (manager.created = 1) =>
          /\ Cardinality(EventsOf("Client")) = 1
          /\ Cardinality(EventsOf("__aenter__")) = 1
          /\ manager.log[1] = ClientEvent("Client", 1, ExpectedKeywords)
          /\ manager.log[2] = ClientEvent("__aenter__", 1, {})
    /\ (caller.op = "disconnect" /\ served = 2 /\ manager.created = 1) =>
          /\ Cardinality(EventsOf("__aexit__")) = 1
          /\ manager.log[3] = ClientEvent("__aexit__", 1, {})
    /\ (caller.op = "disconnect" /\ manager.created = 0) => manager = NewManager

\* C27: is_connected reflects the connection state.  It is False before
\* connect, True only after a connect that completed successfully, and False
\* again once disconnect has completed or a connect attempt has failed.
C27_HealthFlagReflectsConnection ==
    /\ (manager.created = 0) => ~IsConnected(manager)
    /\ IsConnected(manager) => manager.entered > 0
    /\ (caller.op = "disconnect") => ~IsConnected(manager)
    /\ (caller.op = "connect" /\ caller.exc # NoExc) => ~IsConnected(manager)

\* C26: handling requests never changes the loaded configuration or the
\* registered routes: every step of a request leaves the document, the loaded
\* routes and the router as they were.
C26_RequestsLeaveConfiguration ==
    [][(req' # req) =>
         (document' = document /\ config' = config /\ router' = router)]_vars

\* C26 witness: a second request has been answered with a publish, and the
\* router still holds the routes that were loaded from the document
C26_Witness ==
    /\ Handled /\ served >= 2
    /\ req.response.status = 200
    /\ config = LoadFromYaml(document).routes
    /\ router = config

\* the steps lifespan can take from one phase to the next
StartupOrder ==
    { <<"start", "loaded">>, <<"start", "exited">>,
      <<"loaded", "connected">>, <<"loaded", "exited">>,
      <<"connected", "serving">>, <<"connected", "crashed">>,
      <<"serving", "stopped">> }

\* C28: startup is ordered load -> connect -> register.  Routes are reachable
\* only after the load and the connect have both succeeded; a failure of
\* either ends the process with no route registered; and no handler runs
\* publish while the manager's client is None.
C28_StartupOrdered ==
    /\ []((phase = "serving") =>
            /\ ~LoadFromYaml(document).raised /\ config = LoadFromYaml(document).routes
            /\ manager.client # "None" /\ manager.entered = 1)
    /\ []((router # <<>>) => (manager.entered = 1 /\ config # <<>>))
    /\ []((phase = "exited") => (router = <<>> /\ req = IdleRequest))
    /\ []((req.pc # "idle") =>
            /\ manager.client # "None"
            /\ req.frame.exc.exc # "RuntimeError")
    /\ [][(phase' # phase) => (<<phase, phase'>> \in StartupOrder)]_vars
    /\ [][(phase = "exited") => FALSE]_vars

\* C28 witness: a handler has its publish call out on the client that
\* lifespan created and entered before the routes were registered
C28_Witness ==
    /\ req.pc = "publishing"
    /\ manager.log = << ClientEvent("Client", 1, ClientKeywords),
                        ClientEvent("__aenter__", 1, {}) >>
    /\ manager.entered = 1
    /\ router = LoadFromYaml(document).routes

\* the body of the request is valid JSON but no object
NonObjectBody == JsonLoads(req.body).ok /\ JsonLoads(req.body).kind # "object"
\* the body gives a numeric parameter that has a bound a value that is no
\* number
WrongTypedNumber ==
    /\ JsonLoads(req.body).ok /\ JsonLoads(req.body).kind = "object"
    /\ \E i \in 1..Len(Cfg.parameters) :
          LET p == Cfg.parameters[i]
          IN  /\ p.location = "body" /\ p.type \in {"integer", "float"}
              /\ p.minSet \/ p.maxSet
              /\ HasKey(JsonLoads(req.body).obj, p.name)
              /\ Lookup(JsonLoads(req.body).obj, p.name).t \notin {"int", "bool"}

\* C29: a failure caused by the content of the request is a client error.
\* When the endpoint has read a body that is valid JSON but no object, or
\* that gives a bounded integer or float parameter a value of another JSON
\* type, the response has a 4xx status and nothing is published.
C29_ContentFailuresAre4xx ==
    (Handled /\ req.bodyRead /\ (NonObjectBody \/ WrongTypedNumber)) =>
       /\ req.response.status \in 400..499
       /\ req.calls = <<>>

\* C30: the boolean fix-up changes only the renderings of booleans.  A
\* string parameter written between quotes in the template is published with
\* exactly the text that was supplied, also when that text contains ': True'
\* or ': False'.
C30_StringsPublishedAsSupplied ==
    (/\ req.frame.stage = "publish" /\ Cfg = RouteLabel
     /\ "label" \in DOMAIN req.frame.all) =>
       /\ HasKey(req.frame.payload_json.obj, "label")
       /\ Lookup(req.frame.payload_json.obj, "label") = req.frame.all["label"]

=============================================================================
